---- MODULE Spec2Model ----
(***************************************************************************)
(* Username/password authentication backend (Express + Mongoose + bcrypt   *)
(* + jsonwebtoken).  Three handler variants live in the sources:           *)
(*   "serverV1"  src/server.js lines 1-90    (no validation, TTL 1h)       *)
(*   "serverV2"  src/server.js lines 92-297  (validation, db gate, 24h)    *)
(*   "router"    src/routes/auth.js          (status codes, TTL 1h)        *)
(* and the session middleware authenticateToken in src/middleware/auth.js. *)
(* A handler runs atomically between two awaits; every await on the store  *)
(* or on bcrypt is a scheduling point.  Time is counted in hours.          *)
(***************************************************************************)
EXTENDS Integers, Sequences, FiniteSets, TLC

VARIABLES
    variant,      \* which handler variant this process runs
    jwtSecret,    \* process.env.JWT_SECRET
    mongoUri,     \* process.env.MONGODB_URI
    process,      \* "listening" once app.listen ran, "exited" after process.exit
    dbConnected,  \* mongoose.connection.readyState === 1
    users,        \* the 'users' collection, in insertion order
    now,          \* the clock, in hours
    req,          \* per client connection: the request being handled, then its answer
    acked         \* history: <<username, password>> of every signup answered with success, in order

vars == <<variant, jwtSecret, mongoUri, process, dbConnected, users, now, req, acked>>

(***************************** bounds ***************************************)
\* how many token lifetimes the clock runs for
MaxLifetimes == 2

(************************ program constants *********************************)
MinPasswordLength == 6
BcryptCost == 10
TtlServerV1 == 1
TtlServerV2 == 24
TtlRouter == 1

(***************************** values ***************************************)
NoValue == "undefined"
Null == [kind |-> "null"]
\* a local variable that has not been assigned yet
Unset == [kind |-> "unset"]

Variants == {"serverV1", "serverV2", "router"}
Clients == {"c1", "c2"}
SessionClients == {"c1"}
Usernames == {"alice"}
Passwords == {"abc", "secret1"}
UsernameInputs == Usernames \cup {NoValue}
PasswordInputs == Passwords \cup {NoValue}
Salts == {"saltA", "saltB"}
ConfiguredSecret == "s3cret"
FallbackSecret == "fallback_secret"
AttackerSecret == "not_the_server_secret"
SecretSettings == {ConfiguredSecret, NoValue}
ConfiguredUri == "mongodb+srv://cluster/multicalc"
UriSettings == {ConfiguredUri, NoValue}

\* JavaScript truthiness of a string-or-undefined value
Truthy(v) == v # NoValue /\ v # ""

(************************** password hasher *********************************)
\* bcrypt.hash rejects when the data is not a string
BcryptHashThrows(p) == p = NoValue

\* a password kept as submitted
Plain(p) == [kind |-> "plain", text |-> p]

\* The mutant: no digest is computed, the plaintext is handed on
BcryptHashSkipped(p, salt) == Plain(p)

\* bcrypt.hash(p, 10): a salted one-way digest, abstracted as the pair it is a function of
BcryptHash(p, salt) == [kind |-> "bcrypt", cost |-> BcryptCost, salt |-> salt, digestOf |-> p]

BcryptCompareThrows(p) == p = NoValue

\* bcrypt.compare(p, stored): false for anything that is not a bcrypt digest of p
BcryptCompare(p, stored) == stored.kind = "bcrypt" /\ stored.digestOf = p

(*************************** credential store *******************************)
Indexes(store) == 1..Len(store)

\* The mutant: the query matches nothing
FindOneMisses(store, username) == Null

\* User.findOne({ username }): the first matching document, or null
FindOne(store, username) ==
    IF \E i \in Indexes(store) : store[i].username = username
    THEN store[CHOOSE i \in Indexes(store) :
                  /\ store[i].username = username
                  /\ \A j \in Indexes(store) : store[j].username = username => i <= j]
    ELSE Null

\* schema: username and password are required
ValidationFails(username, password) == ~Truthy(username) \/ password = Null

\* The mutant: a schema without the unique index
NoUniqueIndex(store, username) == FALSE

\* schema: username is unique (the index refuses a second document)
DuplicateKey(store, username) == \E i \in Indexes(store) : store[i].username = username

NewDocument(store, username, password) ==
    [_id |-> Len(store) + 1, username |-> username, password |-> password]

\* The mutant: the write replaces the collection's contents (an upsert gone wrong)
InsertOverwrites(store, doc) == <<doc>>

\* newUser.save() of a new document: one insert at the end of the collection
Insert(store, doc) == Append(store, doc)

(****************************** responses ***********************************)
IsRouter == variant = "router"

\* checkDbConnection's answer (serverV2 only)
DbUnavailable ==
    [status |-> 200, success |-> FALSE,
     message |-> "Database connection unavailable. Please try again later."]

CredentialsRequired ==
    [status |-> 200, success |-> FALSE, message |-> "Username and password are required"]

PasswordTooShort ==
    [status |-> 200, success |-> FALSE,
     message |-> "Password must be at least 6 characters long"]

SignupDuplicate ==
    IF IsRouter THEN [status |-> 400, error |-> "Username already exists"]
    ELSE [status |-> 200, success |-> FALSE, message |-> "Username already exists"]

SignupCreated(username) ==
    IF IsRouter
    THEN [status |-> 201, message |-> "User created successfully", username |-> username]
    ELSE [status |-> 200, success |-> TRUE, message |-> "User created successfully"]

\* the catch block of the signup handlers
SignupCatch(err) ==
    IF IsRouter THEN [status |-> 400, error |-> "Error creating user", details |-> err]
    ELSE [status |-> 200, success |-> FALSE, message |-> "Error creating user"]

\* login: no document for the username
LoginUserNotFound ==
    IF IsRouter THEN [status |-> 401, error |-> "Invalid credentials"]
    ELSE [status |-> 200, success |-> FALSE, message |-> "Invalid credentials"]

\* login: bcrypt.compare answered false
LoginPasswordMismatch ==
    IF IsRouter THEN [status |-> 401, error |-> "Invalid credentials"]
    ELSE [status |-> 200, success |-> FALSE, message |-> "Invalid credentials"]

LoginOk(token, username) ==
    IF IsRouter
    THEN [status |-> 200, token |-> token, message |-> "Login successful",
          username |-> username]
    ELSE [status |-> 200, success |-> TRUE, message |-> "Login successful", token |-> token]

\* the catch block of the login handlers
LoginCatch(err) ==
    IF IsRouter THEN [status |-> 400, error |-> "Error logging in", details |-> err]
    ELSE [status |-> 200, success |-> FALSE, message |-> "Error logging in"]

(****************************** requests ************************************)
Idle ==
    [op |-> "none", username |-> NoValue, password |-> NoValue, pc |-> "idle",
     user |-> Unset, hashed |-> Null, resp |-> Null, caught |-> "", late |-> FALSE,
     cookie |-> Null, header |-> Null, at |-> 0]

\* a listening server takes a client's next request once the previous one is answered
CanSend(c) == process = "listening" /\ req[c].pc \in {"idle", "done"}

Answer(c, r) ==
    req' = [req EXCEPT ![c].pc = "done", ![c].resp = r, ![c].hashed = Null]

\* The mutant: the catch block logs the error and sends nothing
CatchLogsOnly(c, err, r) ==
    req' = [req EXCEPT ![c].pc = "hung", ![c].hashed = Null, ![c].caught = err]

\* catch (error) { ... }: the handler answers from its catch block
Catch(c, err, r) ==
    req' = [req EXCEPT ![c].pc = "done", ![c].resp = r, ![c].hashed = Null,
                       ![c].caught = err]

AckedUsernames == {acked[i][1] : i \in DOMAIN acked}
AckedPairs == {acked[i] : i \in DOMAIN acked}

(************************* POST /api/auth/signup ****************************)
\* the request arrives: middleware chain and the handler up to its first await
SignupRequest(c, username, password) ==
    /\ CanSend(c)
    /\ LET r == [Idle EXCEPT !.op = "signup", !.username = username,
                             !.password = password,
                             !.late = username \in AckedUsernames]
       IN  IF variant = "serverV2" /\ ~dbConnected
           THEN req' = [req EXCEPT ![c] = [r EXCEPT !.pc = "done", !.resp = DbUnavailable]]
           ELSE IF variant = "serverV2" /\ (~Truthy(username) \/ ~Truthy(password))
           THEN req' = [req EXCEPT ![c] =
                           [r EXCEPT !.pc = "done", !.resp = CredentialsRequired]]
           ELSE IF variant = "serverV2" /\ Len(password) < MinPasswordLength
           THEN req' = [req EXCEPT ![c] =
                           [r EXCEPT !.pc = "done", !.resp = PasswordTooShort]]
           ELSE req' = [req EXCEPT ![c] = [r EXCEPT !.pc = "findOne"]]
    /\ UNCHANGED <<variant, jwtSecret, mongoUri, process, dbConnected, users, now, acked>>

\* await User.findOne({ username }) returns; the handler runs to its next await
SignupFindOne(c) ==
    /\ req[c].op = "signup" /\ req[c].pc = "findOne"
    /\ IF ~dbConnected
       THEN Catch(c, "store unreachable", SignupCatch("store unreachable"))
       ELSE LET existingUser == FindOne(users, req[c].username)
            IN  IF existingUser # Null
                THEN req' = [req EXCEPT ![c].pc = "done", ![c].resp = SignupDuplicate,
                                        ![c].user = existingUser]
                ELSE IF IsRouter
                THEN \* new User({ username, password }); user.save()
                     req' = [req EXCEPT ![c].pc = "save", ![c].user = existingUser,
                                        ![c].hashed = IF req[c].password = NoValue THEN Null
                                                      ELSE Plain(req[c].password)]
                ELSE req' = [req EXCEPT ![c].pc = "hash", ![c].user = existingUser]
    /\ UNCHANGED <<variant, jwtSecret, mongoUri, process, dbConnected, users, now, acked>>

\* await bcrypt.hash(password, 10) returns (serverV1, serverV2)
SignupHash(c) ==
    /\ req[c].op = "signup" /\ req[c].pc = "hash"
    /\ IF BcryptHashThrows(req[c].password)
       THEN Catch(c, "Illegal arguments", SignupCatch("Illegal arguments"))
       ELSE \E salt \in Salts :
               req' = [req EXCEPT ![c].pc = "save",
                                  ![c].hashed = BcryptHash(req[c].password, salt)]
    /\ UNCHANGED <<variant, jwtSecret, mongoUri, process, dbConnected, users, now, acked>>

\* models/User.js of the router variant: the pre-save hook that hashes the password
RouterPreSave(password, salt) == BcryptHash(password.text, salt)

\* await newUser.save() returns: validation, hooks, the insert, then the response
SignupSave(c) ==
    /\ req[c].op = "signup" /\ req[c].pc = "save"
    /\ \E salt \in Salts :
         LET stored == IF IsRouter /\ req[c].hashed # Null
                       THEN RouterPreSave(req[c].hashed, salt)
                       ELSE req[c].hashed
         IN  IF ValidationFails(req[c].username, req[c].hashed)
             THEN /\ Catch(c, "User validation failed", SignupCatch("User validation failed"))
                  /\ UNCHANGED <<users, acked>>
             ELSE IF ~dbConnected
             THEN /\ Catch(c, "store unreachable", SignupCatch("store unreachable"))
                  /\ UNCHANGED <<users, acked>>
             ELSE IF DuplicateKey(users, req[c].username)
             THEN /\ Catch(c, "E11000 duplicate key error",
                           SignupCatch("E11000 duplicate key error"))
                  /\ UNCHANGED <<users, acked>>
             ELSE /\ users' = Insert(users, NewDocument(users, req[c].username, stored))
                  /\ Answer(c, SignupCreated(req[c].username))
                  /\ acked' = Append(acked, <<req[c].username, req[c].password>>)
    /\ UNCHANGED <<variant, jwtSecret, mongoUri, process, dbConnected, now>>

(*************************** token issuer/verifier **************************)
\* jwt.sign throws when secretOrPrivateKey has no value
JwtSignThrows(key) == ~Truthy(key)

\* jwt.sign(claims, key, { expiresIn }): iat is the clock, exp is iat + expiresIn
JwtSign(claims, key, ttl, clock) ==
    [kind |-> "jwt", payload |-> claims, iat |-> clock, exp |-> clock + ttl, sig |-> key]

\* The mutant: the signature is not checked (decode instead of verify)
SignatureIgnored(token, key) == TRUE

SignatureValid(token, key) == token.sig = key

\* The mutant: a token is still accepted at the instant of its expiry
ExpiredOnlyAfter(token, clock) == clock > token.exp

Expired(token, clock) == clock >= token.exp

\* jwt.verify(token, key, callback): the error handed to the callback, or "" for none
JwtVerifyError(token, key, clock) ==
    IF token.kind # "jwt" THEN "jwt malformed"
    ELSE IF ~SignatureValid(token, key) THEN "invalid signature"
    ELSE IF Expired(token, clock) THEN "jwt expired"
    ELSE ""

\* the decoded payload handed to the callback
JwtDecoded(token) == [claims |-> token.payload, iat |-> token.iat, exp |-> token.exp]

\* The mutant: the issuer falls back to a default of its own
SigningKeyOwnDefault == IF Truthy(jwtSecret) THEN jwtSecret ELSE "dev_secret"

\* the second argument of jwt.sign in each login handler
SigningKey ==
    IF variant = "serverV2"
    THEN (IF Truthy(jwtSecret) THEN jwtSecret ELSE FallbackSecret)
    ELSE jwtSecret

\* the second argument of jwt.verify in authenticateToken
VerifyingKey == IF Truthy(jwtSecret) THEN jwtSecret ELSE FallbackSecret

\* the first argument of jwt.sign in each login handler
TokenClaims(user) ==
    IF variant = "serverV2" THEN [userId |-> user._id, username |-> user.username]
    ELSE IF variant = "serverV1" THEN [userId |-> user._id]
    ELSE [id |-> user._id]

\* expiresIn of each login handler, in hours
TokenTtl ==
    IF variant = "serverV2" THEN TtlServerV2
    ELSE IF variant = "serverV1" THEN TtlServerV1
    ELSE TtlRouter

(************************** POST /api/auth/login ****************************)
LoginRequest(c, username, password) ==
    /\ CanSend(c)
    /\ LET r == [Idle EXCEPT !.op = "login", !.username = username,
                             !.password = password,
                             !.late = <<username, password>> \in AckedPairs]
       IN  IF variant = "serverV2" /\ ~dbConnected
           THEN req' = [req EXCEPT ![c] = [r EXCEPT !.pc = "done", !.resp = DbUnavailable]]
           ELSE IF variant = "serverV2" /\ (~Truthy(username) \/ ~Truthy(password))
           THEN req' = [req EXCEPT ![c] =
                           [r EXCEPT !.pc = "done", !.resp = CredentialsRequired]]
           ELSE req' = [req EXCEPT ![c] = [r EXCEPT !.pc = "findOne"]]
    /\ UNCHANGED <<variant, jwtSecret, mongoUri, process, dbConnected, users, now, acked>>

\* await User.findOne({ username }) returns; the handler runs to bcrypt.compare
LoginFindOne(c) ==
    /\ req[c].op = "login" /\ req[c].pc = "findOne"
    /\ IF ~dbConnected
       THEN Catch(c, "store unreachable", LoginCatch("store unreachable"))
       ELSE LET user == FindOne(users, req[c].username)
            IN  IF user = Null
                THEN req' = [req EXCEPT ![c].pc = "done", ![c].resp = LoginUserNotFound,
                                        ![c].user = user]
                ELSE req' = [req EXCEPT ![c].pc = "compare", ![c].user = user]
    /\ UNCHANGED <<variant, jwtSecret, mongoUri, process, dbConnected, users, now, acked>>

\* The mutant: the result of bcrypt.compare is not looked at
IsMatchIgnored(password, user) == TRUE

\* const isMatch = await bcrypt.compare(password, user.password)
IsMatch(password, user) == BcryptCompare(password, user.password)

\* await bcrypt.compare returns; the handler signs the token and answers
LoginCompare(c) ==
    /\ req[c].op = "login" /\ req[c].pc = "compare"
    /\ IF BcryptCompareThrows(req[c].password)
       THEN Catch(c, "Illegal arguments", LoginCatch("Illegal arguments"))
       ELSE IF ~IsMatch(req[c].password, req[c].user)
       THEN Answer(c, LoginPasswordMismatch)
       ELSE IF JwtSignThrows(SigningKey)
       THEN Catch(c, "secretOrPrivateKey must have a value",
                  LoginCatch("secretOrPrivateKey must have a value"))
       ELSE Answer(c, LoginOk(JwtSign(TokenClaims(req[c].user), SigningKey, TokenTtl, now),
                              req[c].user.username))
    /\ UNCHANGED <<variant, jwtSecret, mongoUri, process, dbConnected, users, now, acked>>

(****************************** environment *********************************)
\* mongoose.connection 'disconnected'
Disconnect ==
    /\ dbConnected
    /\ dbConnected' = FALSE
    /\ UNCHANGED <<variant, jwtSecret, mongoUri, process, users, now, req, acked>>

\* mongoose.connect resolves, or mongoose.connection 'reconnected'
Reconnect ==
    /\ process = "listening"
    /\ Truthy(mongoUri)
    /\ ~dbConnected
    /\ dbConnected' = TRUE
    /\ UNCHANGED <<variant, jwtSecret, mongoUri, process, users, now, req, acked>>

\* the clock is read again after about a token lifetime, give or take an hour
ClockSteps == {TokenTtl - 1, TokenTtl, TokenTtl + 1} \ {0}

Horizon == MaxLifetimes * TokenTtl + 1

Tick(d) ==
    /\ now + d <= Horizon
    /\ now' = now + d
    /\ UNCHANGED <<variant, jwtSecret, mongoUri, process, dbConnected, users, req, acked>>

(**************************** session middleware ****************************)
BearerWord == [kind |-> "word", text |-> "Bearer"]

\* an Authorization header, as the words its value splits into at ' '
Header(words) == [kind |-> "header", words |-> words]

\* a string that is no JWT at all
Garbage == [kind |-> "garbage"]

\* a cookie sent with an empty value: authToken=
EmptyCookie == [kind |-> "empty"]

\* tokens an outsider can mint: any claims, any expiry, signed with a key of its own
\* or with the fallback key that is written in the source
ForgedTokens ==
    {[kind |-> "jwt", payload |-> [userId |-> 1, username |-> u], iat |-> 0,
      exp |-> e, sig |-> k] :
        u \in Usernames, e \in {0, Horizon + 1}, k \in {AttackerSecret, FallbackSecret}}

\* req.headers['authorization'] && req.headers['authorization'].split(' ')[1]
HeaderToken(header) ==
    IF header = Null THEN Null
    ELSE IF Len(header.words) >= 2 THEN header.words[2]
    ELSE Null

\* what a client holds: the token of its last login, or the ones it last presented
HeldTokens(c) ==
    IF req[c].pc = "done" /\ req[c].op = "login" /\ "token" \in DOMAIN req[c].resp
    THEN {req[c].resp.token}
    ELSE IF req[c].op = "protected"
    THEN {t \in {req[c].cookie, HeaderToken(req[c].header)} : t # Null /\ t.kind = "jwt"}
    ELSE {}

PresentableTokens(c) == HeldTokens(c) \cup ForgedTokens \cup {Garbage}

CookieValues(c) == {Null, EmptyCookie} \cup PresentableTokens(c)

HeaderValues(c) ==
    {Null, Header(<<BearerWord>>)}
        \cup {Header(<<BearerWord, t>>) : t \in PresentableTokens(c)}

\* req.cookies.authToken is truthy: the cookie is there and not empty
CookieTruthy(cookie) == cookie # Null /\ cookie # EmptyCookie

\* The mutant: the header is consulted first
CandidateHeaderFirst(cookie, header) ==
    IF HeaderToken(header) # Null THEN HeaderToken(header)
    ELSE IF CookieTruthy(cookie) THEN cookie
    ELSE Null

\* const token = req.cookies.authToken || (header && header.split(' ')[1])
Candidate(cookie, header) ==
    IF CookieTruthy(cookie) THEN cookie ELSE HeaderToken(header)

Rejected(status, message) ==
    [status |-> status, success |-> FALSE, message |-> message, user |-> Null,
     next |-> FALSE]

\* req.user = user; next()
Accepted(token) ==
    [status |-> 0, success |-> TRUE, message |-> "", user |-> JwtDecoded(token),
     next |-> TRUE]

\* The mutant: the return in front of res.status(403) is missing
OutcomeFallsThrough(token, key, clock) ==
    IF token = Null THEN Rejected(401, "Access token required")
    ELSE IF JwtVerifyError(token, key, clock) # ""
    THEN [Rejected(403, "Invalid or expired token") EXCEPT !.next = TRUE]
    ELSE Accepted(token)

\* The mutant: the middleware also looks the session up in the store
OutcomeConsultsStore(token, key, clock) ==
    IF token = Null THEN Rejected(401, "Access token required")
    ELSE IF JwtVerifyError(token, key, clock) # "" \/ ~dbConnected
    THEN Rejected(403, "Invalid or expired token")
    ELSE Accepted(token)

\* authenticateToken from the extracted token on: 401, 403, or req.user and next()
Outcome(token, key, clock) ==
    IF token = Null THEN Rejected(401, "Access token required")
    ELSE IF JwtVerifyError(token, key, clock) # ""
    THEN Rejected(403, "Invalid or expired token")
    ELSE Accepted(token)

\* a request to a route guarded by authenticateToken(req, res, next)
ProtectedRequest(c, cookie, header) ==
    /\ CanSend(c)
    /\ req' = [req EXCEPT ![c] =
                 [Idle EXCEPT !.op = "protected", !.pc = "done", !.cookie = cookie,
                              !.header = header, !.at = now,
                              !.resp = Outcome(Candidate(cookie, header), VerifyingKey, now)]]
    /\ UNCHANGED <<variant, jwtSecret, mongoUri, process, dbConnected, users, now, acked>>

(***************************** specifications *******************************)
\* the server that mounts routes/auth.js: it keeps running without a connection string
RouterBootstrap(uri) == "listening"

\* the module body of each server: process.exit(1) or app.listen
Bootstrap(v, uri) ==
    IF v = "serverV1" THEN (IF ~Truthy(uri) THEN "exited" ELSE "listening")
    ELSE IF v = "serverV2" THEN "listening"
    ELSE RouterBootstrap(uri)

Init ==
    /\ variant \in Variants
    /\ jwtSecret \in SecretSettings
    /\ mongoUri \in UriSettings
    /\ process = Bootstrap(variant, mongoUri)
    /\ dbConnected = FALSE
    /\ users = <<>>
    /\ now = 0
    /\ req = [c \in Clients |-> Idle]
    /\ acked = <<>>

\* signup and login requests of two clients against a store whose connection comes and goes
Next ==
    \/ \E c \in Clients, u \in UsernameInputs, p \in PasswordInputs : SignupRequest(c, u, p)
    \/ \E c \in Clients : SignupFindOne(c)
    \/ \E c \in Clients : SignupHash(c)
    \/ \E c \in Clients : SignupSave(c)
    \/ \E c \in Clients, u \in UsernameInputs, p \in PasswordInputs : LoginRequest(c, u, p)
    \/ \E c \in Clients : LoginFindOne(c)
    \/ \E c \in Clients : LoginCompare(c)
    \/ Disconnect
    \/ Reconnect

Spec == Init /\ [][Next]_vars

\* every awaited promise settles and the event loop resumes the handler that awaits it
HandlersResume ==
    \A c \in Clients :
        /\ WF_vars(SignupFindOne(c))
        /\ WF_vars(SignupHash(c))
        /\ WF_vars(SignupSave(c))
        /\ WF_vars(LoginFindOne(c))
        /\ WF_vars(LoginCompare(c))

SpecFair == Init /\ [][Next]_vars /\ HandlersResume

\* a registered user: the state Spec reaches by a connect and one signup of client c2
InitSession ==
    /\ variant \in Variants
    /\ jwtSecret \in SecretSettings
    /\ mongoUri = ConfiguredUri
    /\ process = "listening"
    /\ dbConnected = TRUE
    /\ users = <<NewDocument(<<>>, "alice", BcryptHash("secret1", "saltA"))>>
    /\ now = 0
    /\ req = [c \in Clients |->
                IF c \in SessionClients THEN Idle
                ELSE [Idle EXCEPT !.op = "signup", !.pc = "done", !.username = "alice",
                                  !.password = "secret1", !.user = Null,
                                  !.resp = SignupCreated("alice")]]
    /\ acked = <<(<<"alice", "secret1">>)>>

\* one client logs in and presents tokens to the middleware while time passes
NextSession ==
    \/ \E c \in SessionClients, u \in UsernameInputs, p \in PasswordInputs :
          LoginRequest(c, u, p)
    \/ \E c \in SessionClients : LoginFindOne(c)
    \/ \E c \in SessionClients : LoginCompare(c)
    \/ \E c \in SessionClients :
          \E cookie \in CookieValues(c), header \in HeaderValues(c) :
             ProtectedRequest(c, cookie, header)
    \/ \E d \in ClockSteps : Tick(d)

SpecSession == InitSession /\ [][NextSession]_vars

\* the client that holds a token, and the client whose requests go on meanwhile
Holders == {"c1"}
Others == Clients \ Holders

\* a token is issued and presented later, while another client signs up and logs in, the
\* store connection comes and goes, and time passes
NextStateless ==
    \/ \E c \in Holders : LoginRequest(c, "alice", "secret1")
    \/ \E c \in Holders : LoginFindOne(c)
    \/ \E c \in Holders : LoginCompare(c)
    \/ \E c \in Holders :
          \E cookie \in {Null} \cup HeldTokens(c) : ProtectedRequest(c, cookie, Null)
    \/ \E c \in Others, u \in UsernameInputs, p \in PasswordInputs : SignupRequest(c, u, p)
    \/ \E c \in Others : SignupFindOne(c)
    \/ \E c \in Others : SignupHash(c)
    \/ \E c \in Others : SignupSave(c)
    \/ \E c \in Others, u \in UsernameInputs, p \in PasswordInputs : LoginRequest(c, u, p)
    \/ \E c \in Others : LoginFindOne(c)
    \/ \E c \in Others : LoginCompare(c)
    \/ Disconnect
    \/ Reconnect
    \/ \E d \in ClockSteps : Tick(d)

SpecStateless == InitSession /\ [][NextStateless]_vars

\* the usernames of a store that grows beyond one record
StoreUsernames == Usernames \cup {"bob"}
StoreUsernameInputs == StoreUsernames \cup {NoValue}

\* one client signs up and logs in under several usernames and presents its tokens, while
\* the store connection comes and goes
NextStore ==
    \/ \E c \in SessionClients, u \in StoreUsernameInputs, p \in PasswordInputs :
          SignupRequest(c, u, p)
    \/ \E c \in SessionClients : SignupFindOne(c)
    \/ \E c \in SessionClients : SignupHash(c)
    \/ \E c \in SessionClients : SignupSave(c)
    \/ \E c \in SessionClients, u \in StoreUsernameInputs, p \in PasswordInputs :
          LoginRequest(c, u, p)
    \/ \E c \in SessionClients : LoginFindOne(c)
    \/ \E c \in SessionClients : LoginCompare(c)
    \/ \E c \in SessionClients :
          \E cookie \in {Null} \cup HeldTokens(c) : ProtectedRequest(c, cookie, Null)
    \/ Disconnect
    \/ Reconnect

SpecStore == Init /\ [][NextStore]_vars

(******************************* vocabulary *********************************)
Done(c, op) == req[c].op = op /\ req[c].pc = "done"

\* a success response: a 2xx status, no error field, and success: true where the body has one
Succeeded(r) ==
    /\ r.status \in {200, 201}
    /\ "error" \notin DOMAIN r
    /\ ("success" \in DOMAIN r => r.success)

\* the text of a failure response, whichever field carries it
FailureText(r) ==
    IF "error" \in DOMAIN r THEN r.error
    ELSE IF "message" \in DOMAIN r THEN r.message
    ELSE ""

DuplicateOutcome(r) == ~Succeeded(r) /\ FailureText(r) = "Username already exists"

ValidationOutcome(r) == r \in {CredentialsRequired, PasswordTooShort}

\* what a caller can observe of a response: its status and its body without the error detail
Observable(r) == [status |-> r.status, text |-> FailureText(r), ok |-> Succeeded(r)]

LongEnough(p) == p # NoValue /\ Len(p) >= MinPasswordLength

SuccessesFor(u) == {i \in DOMAIN acked : acked[i][1] = u}

(********************************* claims ***********************************)
\* C1: however two or more concurrent signups with the same username interleave (each
\* doing its lookup and its insert as separate steps), at most one of them is answered
\* with success: no username is ever acknowledged twice.
C1_AtMostOneSignupSucceeds ==
    \A u \in UsernameInputs : Cardinality(SuccessesFor(u)) <= 1

\* C1 witness: two signups for the same username both passed the lookup; one was
\* answered with success and the other was refused by the unique index at its insert.
C1_Witness ==
    /\ Done("c1", "signup") /\ Done("c2", "signup")
    /\ req["c1"].username = req["c2"].username
    /\ req["c1"].user = Null /\ req["c2"].user = Null
    /\ Succeeded(req["c1"].resp)
    /\ req["c2"].caught = "E11000 duplicate key error"

\* C2: in every reachable state the store holds no two records with the same username.
C2_UsernamesUnique ==
    \A i, j \in Indexes(users) : users[i].username = users[j].username => i = j

\* C2 witness: the store holds a record and a second insert for its username was refused.
C2_Witness ==
    \E c \in Clients :
        /\ Done(c, "signup")
        /\ req[c].caught = "E11000 duplicate key error"
        /\ \E i \in Indexes(users) : users[i].username = req[c].username

C4_TokenOnlyForVerifiedCredentials ==
    \A c \in Clients :
        (Done(c, "login") /\ "token" \in DOMAIN req[c].resp)
            => /\ req[c].user \notin {Unset, Null}
               /\ req[c].user.username = req[c].username
               /\ \E i \in Indexes(users) : users[i] = req[c].user
               /\ req[c].password # NoValue
               /\ BcryptCompare(req[c].password, req[c].user.password)

\* C4 witness: a login was answered with a token.
C4_Witness ==
    \E c \in Clients :
        /\ Done(c, "login") /\ "token" \in DOMAIN req[c].resp
        /\ req[c].user \notin {Unset, Null}

\* C5: a login with an existing username and a password that does not verify gets the
\* same observable response (status, kind, message) as a login whose username has no record.
C5_SameResponse ==
    \A c, d \in Clients :
        ( /\ Done(c, "login") /\ req[c].user \notin {Unset, Null}
          /\ ~(req[c].password # NoValue
                 /\ BcryptCompare(req[c].password, req[c].user.password))
          /\ Done(d, "login") /\ req[d].username # NoValue /\ req[d].user = Null )
            => Observable(req[c].resp) = Observable(req[d].resp)

\* the token authenticateToken extracted from a protected request
Presented(c) == Candidate(req[c].cookie, req[c].header)

\* a token that came out of a login response (every other presentable one is forged)
PresentedIssued(c) ==
    /\ Done(c, "protected")
    /\ Presented(c) # Null
    /\ Presented(c).kind = "jwt"
    /\ Presented(c) \notin ForgedTokens

\* C6: a token issued by login at time T with TTL D is accepted by the session middleware
\* at every check time T' < T + D and rejected with 403 at every check time T' >= T + D.
C6_AcceptedUntilExpiry ==
    \A c \in Clients :
        PresentedIssued(c) =>
            IF req[c].at < Presented(c).iat + TokenTtl
            THEN req[c].resp.next /\ req[c].resp.status = 0
            ELSE ~req[c].resp.next /\ req[c].resp.status = 403

\* C6 witness: an issued token is presented at exactly T + D and is answered with 403.
C6_Witness ==
    \E c \in Clients :
        /\ PresentedIssued(c)
        /\ req[c].at = Presented(c).iat + TokenTtl
        /\ req[c].resp.status = 403

\* C7: a token signed with a secret other than the verifier's is rejected by the session
\* middleware whatever its claims and whether or not it has expired; the downstream handler
\* is not reached with it.
C7_ForeignSignatureRejected ==
    \A c \in Clients :
        ( /\ Done(c, "protected")
          /\ Presented(c) # Null
          /\ Presented(c).kind = "jwt"
          /\ Presented(c).sig # VerifyingKey )
            => /\ req[c].resp.status = 403
               /\ ~req[c].resp.next
               /\ req[c].resp.user = Null

\* C7 witness: an unexpired token with a foreign signature was presented and refused.
C7_Witness ==
    \E c \in Clients :
        /\ Done(c, "protected")
        /\ Presented(c) # Null
        /\ Presented(c).kind = "jwt"
        /\ Presented(c).sig # VerifyingKey
        /\ Presented(c).exp > req[c].at
        /\ req[c].resp.status = 403

\* C8: the session middleware has exactly three outcomes: no token in the cookie and none
\* in the Authorization header is answered 401; a token that fails verification is answered
\* 403; only a token that verifies gets its claims attached and the downstream handler
\* invoked, and the downstream handler is not invoked in the two rejecting cases.
C8_ThreeOutcomes ==
    \A c \in Clients :
        Done(c, "protected") =>
            LET t == Presented(c)
                r == req[c].resp
                verifies == t # Null /\ JwtVerifyError(t, VerifyingKey, req[c].at) = ""
            IN  /\ (req[c].cookie = Null /\ req[c].header = Null)
                      => (r.status = 401 /\ ~r.next)
                /\ (t # Null /\ ~verifies) => (r.status = 403 /\ ~r.next)
                /\ r.next <=> verifies
                /\ r.next => (r.status = 0 /\ r.user = JwtDecoded(t))
                /\ ~r.next => (r.status \in {401, 403} /\ r.user = Null)

\* C8 witness: a token that is no JWT was presented in the cookie and answered 403
\* without the downstream handler being invoked.
C8_Witness ==
    \E c \in Clients :
        /\ Done(c, "protected")
        /\ req[c].cookie = Garbage
        /\ req[c].resp.status = 403
        /\ ~req[c].resp.next

\* C9: a signup whose username or password is missing, or whose password is shorter than
\* 6 characters, is rejected and creates no user record, in every signup handler.  Stated
\* here for the two handlers whose schema is in server.js, and without asking that the
\* rejection be worded as a validation error, which the claim asks on top of this.
C9_InvalidSignupRejected ==
    ~IsRouter =>
        /\ \A c \in Clients :
              (Done(c, "signup")
                  /\ ~(req[c].username # NoValue /\ LongEnough(req[c].password)))
                  => ~Succeeded(req[c].resp)
        /\ \A i \in Indexes(users) :
              /\ users[i].username # NoValue
              /\ \E k \in DOMAIN acked :
                    /\ acked[k][1] = users[i].username
                    /\ LongEnough(acked[k][2])

\* C10: every user record in the store has a password field that is an output of the
\* password hasher and never the plaintext that was submitted at signup.
C10_OnlyHashesStored ==
    \A i \in Indexes(users) :
        /\ users[i].password.kind = "bcrypt"
        /\ users[i].password.cost = BcryptCost
        /\ \A p \in PasswordInputs : users[i].password # Plain(p)

\* C10 witness: a signup was answered with success and its record is in the store.
C10_Witness ==
    \E c \in Clients :
        /\ Done(c, "signup")
        /\ Succeeded(req[c].resp)
        /\ \E i \in Indexes(users) :
              /\ users[i].username = req[c].username
              /\ BcryptCompare(req[c].password, users[i].password)

\* C11: every signup or login that hits a store-connectivity failure, at arrival or
\* between the connectivity check and the store operation, is answered with the
\* store-unavailable response.
C11_StoreFailureAnswered ==
    \A c \in Clients :
        (req[c].pc = "done" /\ req[c].op \in {"signup", "login"}
            /\ req[c].caught = "store unreachable")
            => req[c].resp = DbUnavailable

\* C12: every token a successful login returns carries the user id and the username of
\* the record that authenticated (checked for the two servers, whose user model is in
\* the sources).
C12_TokenCarriesIdAndUsername ==
    ~IsRouter =>
        \A c \in Clients :
            (Done(c, "login") /\ Succeeded(req[c].resp))
                => LET claims == req[c].resp.token.payload
                   IN  /\ DOMAIN claims = {"userId", "username"}
                       /\ claims.userId = req[c].user._id
                       /\ claims.username = req[c].user.username

\* C13: every signup rejected because the username is taken, whether its own lookup found
\* the record or the unique index refused its insert, is answered with the
\* duplicate-username outcome (checked for the two servers, whose user model is in the
\* sources).
C13_DuplicateAnsweredAsDuplicate ==
    ~IsRouter =>
        \A c \in Clients :
            (Done(c, "signup")
                /\ (req[c].user \notin {Unset, Null}
                      \/ req[c].caught = "E11000 duplicate key error"))
                => DuplicateOutcome(req[c].resp)

\* a token the verifier takes at the time of the request: well formed, signed with the
\* verifier's key, not yet expired
ValidAt(token, clock) == token # Null /\ JwtVerifyError(token, VerifyingKey, clock) = ""

\* C14: the middleware takes the candidate from the cookie whenever the cookie holds a
\* value and consults the Authorization header only otherwise: an invalid cookie token is
\* answered with 403 even when the header holds a valid bearer token, and a valid cookie
\* token is accepted, with its own claims attached, whatever the header holds.
C14_CookieBeforeHeader ==
    \A c \in Clients :
        Done(c, "protected") =>
            LET cookie == req[c].cookie
                bearer == HeaderToken(req[c].header)
                r      == req[c].resp
            IN  /\ (CookieTruthy(cookie) /\ ~ValidAt(cookie, req[c].at))
                      => r.status = 403 /\ ~r.next
                /\ (CookieTruthy(cookie) /\ ValidAt(cookie, req[c].at))
                      => r.next /\ r.user = JwtDecoded(cookie)
                /\ (~CookieTruthy(cookie) /\ ValidAt(bearer, req[c].at))
                      => r.next /\ r.user = JwtDecoded(bearer)
                /\ (~CookieTruthy(cookie) /\ bearer = Null) => r.status = 401

\* C14 witness: a request with a non-JWT cookie and a valid issued bearer token in the
\* header was answered with 403.
C14_Witness ==
    \E c \in Clients :
        /\ Done(c, "protected")
        /\ req[c].cookie = Garbage
        /\ ValidAt(HeaderToken(req[c].header), req[c].at)
        /\ HeaderToken(req[c].header) \notin ForgedTokens
        /\ req[c].resp.status = 403

\* C15: with no store connection string configured the server still reaches the listening
\* state, and every signup and login it then answers gets the store-unavailable response
\* (checked for the two servers, whose start-up code is in the sources).
C15_ListensWithoutUri ==
    (~IsRouter /\ ~Truthy(mongoUri)) =>
        /\ process = "listening"
        /\ \A c \in Clients :
              (req[c].pc = "done" /\ req[c].op \in {"signup", "login"})
                  => req[c].resp = DbUnavailable

\* a response with a status and a body that says what happened
Structured(r) ==
    /\ "status" \in DOMAIN r
    /\ ("message" \in DOMAIN r \/ "error" \in DOMAIN r)
    /\ FailureText(r) # "" \/ Succeeded(r)

InFlight(c) == req[c].op \in {"signup", "login"} /\ req[c].pc \notin {"idle", "done"}

\* C16: every signup and login request is eventually answered, with one structured
\* response, whatever step fails (lookup, hashing, insert, signing without a secret), and
\* the server is still listening when it answers.
C16_EveryRequestAnswered ==
    /\ \A c \in Clients :
          InFlight(c) ~> (req[c].pc = "done" /\ Structured(req[c].resp))
    /\ [](\A c \in Clients :
             (req[c].pc = "done" /\ req[c].op \in {"signup", "login"})
                 => Structured(req[c].resp) /\ process = "listening")

\* C16 witness: a login whose token signing failed for lack of a secret was answered from
\* the catch block by a server that is still listening.
C16_Witness ==
    \E c \in Clients :
        /\ Done(c, "login")
        /\ req[c].caught = "secretOrPrivateKey must have a value"
        /\ Structured(req[c].resp)
        /\ process = "listening"

\* C17: whether the middleware accepts a token depends only on the token's signature and
\* expiry and on the time of the request: an issued token is accepted at every request
\* before its expiry and at none after, whatever signups, logins and store-connectivity
\* changes happened since it was issued.
C17_ValidityStateless ==
    \A c \in Holders :
        (Done(c, "protected") /\ req[c].cookie # Null)
            => LET t == req[c].cookie
               IN  /\ req[c].resp.next <=> (t.sig = VerifyingKey /\ req[c].at < t.exp)
                   /\ req[c].resp.next => req[c].resp.user = JwtDecoded(t)
                   /\ t.sig = VerifyingKey

\* C17 witness: a token was accepted while the store was disconnected and after another
\* client had logged in later than the token was issued.
C17_Witness ==
    \E c \in Holders, d \in Others :
        /\ Done(c, "protected")
        /\ req[c].cookie # Null
        /\ req[c].resp.next
        /\ ~dbConnected
        /\ Done(d, "login")
        /\ Succeeded(req[d].resp)
        /\ req[d].resp.token.iat > req[c].cookie.iat
        /\ req[c].at >= req[d].resp.token.iat

SignupSucceeds(c) ==
    /\ req[c].op = "signup"
    /\ req[c].pc = "save"
    /\ req'[c].pc = "done"
    /\ Succeeded(req'[c].resp)

\* C19: user records are append-only: the step that answers a signup with success adds
\* exactly one record, for that signup's username, after the existing ones and changes
\* none of them; every other step (a login, a token verification, a failed signup, a
\* connection event) leaves the store as it is.
C19_AppendOnly ==
    [][ IF \E c \in Clients : SignupSucceeds(c)
        THEN \E c \in Clients :
                /\ SignupSucceeds(c)
                /\ Len(users') = Len(users) + 1
                /\ \A i \in Indexes(users) : users'[i] = users[i]
                /\ users'[Len(users')].username = req[c].username
        ELSE users' = users ]_vars

\* C19 witness: the store holds two records of different usernames, the second one added
\* by a signup that was answered with success while the first one stayed as it was.
C19_Witness ==
    /\ Len(users) = 2
    /\ users[1].username # users[2].username
    /\ users[1]._id # users[2]._id
    /\ \E c \in Clients :
          /\ Done(c, "signup")
          /\ Succeeded(req[c].resp)
          /\ req[c].username = users[2].username

====
